---- MODULE Spec2Model ----
(***************************************************************************)
(* Model of CloudStorage (src/firmware/CloudStorage.h): the cached         *)
(* configuration pulled from Firebase by update(), the wraparound log      *)
(* written by log(), the connection made by init() and the asserting       *)
(* accessor getGmtOffset(); and of Thermistor (src/unnamed/part_000), the  *)
(* conversion of an ADC sample to a resistance and a temperature.          *)
(*                                                                         *)
(* Conventions:                                                            *)
(*  - float fields are held as integers in hundredths (9555.55 -> 955555); *)
(*  - a FirebaseObject is a function from the twelve fields to what its    *)
(*    getter yields: the value, and whether the read failed (the property  *)
(*    is not in the object; the getter then yields a zero value);          *)
(*  - the calls a handler makes on its collaborators (Device, Firebase,    *)
(*    delay) are recorded, in order, in 'trace' and 'writes';              *)
(*  - undefined behaviour (the remainder by a zero '_max_entries', the     *)
(*    missing return of init()) is a choice between a trap ('fault') and   *)
(*    an arbitrary value; a failed assert() is a trap as well.             *)
(***************************************************************************)
EXTENDS Integers, Sequences, FiniteSets, TLC

VARIABLES
    config,          \* the twelve cached configuration members
    _current_entry,  \* uint32_t _current_entry
    led,             \* the Device's LED: "steady" or "blink"
    fault,           \* TRUE once the program has trapped
    lastCall,        \* the handler that ran last: "none", "update", "log",
                     \* "init" or "getGmtOffset"
    result,          \* what that handler returned: "true", "false", "void",
                     \* "int8" (the value is in 'returned'), "none"
    returned,        \* getGmtOffset(): the int8_t returned, else 0
    configObj,       \* the FirebaseObject fetched, when update() ran last
    trace,           \* the collaborator calls of the last handler, in order
    writes,          \* log(): the Firebase.set calls of the last handler
    logged,          \* slots written by the current run of first-try successes
                     \* that began at slot 0
    repeated,        \* TRUE when update() ran last, right after an update()
                     \* that met the same store content and outcomes
    thermistor,      \* the Thermistor object: _rs, _r0, _t0, _b
    calibration,     \* the arguments of the last Thermistor::init
    sample,          \* the argument of the last Thermistor::toReading
    reading          \* the ThermistorReading it returned

\* The CloudStorage object and what its handlers did.
cvars == <<config, _current_entry, led, fault, lastCall, result, returned,
           configObj, trace, writes, logged, repeated>>

\* The Thermistor object and what its methods did.
tvars == <<thermistor, calibration, sample, reading>>

vars == <<config, _current_entry, led, fault, lastCall, result, returned,
          configObj, trace, writes, logged, repeated,
          thermistor, calibration, sample, reading>>

----------------------------------------------------------------------------
(* Bounds *)

\* Remote values of config/maxEntries range over -1..MaxRemoteEntries: a
\* negative int, zero, and the capacities 1..MaxRemoteEntries.
MaxRemoteEntries == 3

\* log() is not called once the cursor has reached MaxCursor.
MaxCursor == 3

\* 'logged' is restarted once it holds MaxRun slots: enough to see the
\* largest log wrap.
MaxRun == MaxRemoteEntries + 1

----------------------------------------------------------------------------
(* The configuration members, in the order update() reads them *)

FieldOrder ==
    << "_series_resistor", "_temperature_at_0", "_resistance_at_0",
       "_b_coefficient", "_polling_milliseconds", "_max_entries",
       "_ntp_server", "_gmt_offset", "_delta_t_on", "_delta_t_off",
       "_min_t_on", "_oversample" >>

Fields == { FieldOrder[k] : k \in 1..Len(FieldOrder) }

\* The member initialisers.
Defaults ==
    [ f \in Fields |->
        CASE f = "_series_resistor"      -> 817000
          [] f = "_resistance_at_0"      -> 955555
          [] f = "_temperature_at_0"     -> 2500
          [] f = "_b_coefficient"        -> 338000
          [] f = "_polling_milliseconds" -> 5 * 1000
          [] f = "_max_entries"          -> 0
          [] f = "_ntp_server"           -> "pool.ntp.org"
          [] f = "_gmt_offset"           -> 0
          [] f = "_min_t_on"             -> 1000
          [] f = "_delta_t_on"           -> 1000
          [] f = "_delta_t_off"          -> 100
          [] f = "_oversample"           -> 16 ]

----------------------------------------------------------------------------
(* The remote store *)

\* What a getter yields for a property the object lacks.
ZeroValue(f) == IF f = "_ntp_server" THEN "" ELSE 0

Present(v)   == [ failed |-> FALSE, value |-> v ]
Missing(f)   == [ failed |-> TRUE,  value |-> ZeroValue(f) ]

\* The object left by a Firebase.get("config") that failed.
NoObject == [ f \in Fields |-> Missing(f) ]

\* What the database holds at config/<field> when it holds something
\* (config/maxEntries apart, which ranges over the bounds above).
RemoteValue ==
    [ f \in Fields |->
        CASE f = "_series_resistor"      -> 1000000
          [] f = "_resistance_at_0"      -> 1000000
          [] f = "_temperature_at_0"     -> 2000
          [] f = "_b_coefficient"        -> 395000
          [] f = "_polling_milliseconds" -> 60 * 1000
          [] f = "_max_entries"          -> MaxRemoteEntries
          [] f = "_ntp_server"           -> "time.nist.gov"
          [] f = "_gmt_offset"           -> -8
          [] f = "_min_t_on"             -> 500
          [] f = "_delta_t_on"           -> 1500
          [] f = "_delta_t_off"          -> 200
          [] f = "_oversample"           -> 32 ]

\* What the database may hold at config/gmtOffset: an offset in [-11, 13]
\* and an int outside it (and outside int8_t).
RemoteGmtOffsets == { RemoteValue["_gmt_offset"], 300 }

\* The sets of properties a fetched object may lack: none, any single one,
\* or all of them.
AbsentSets == { {} } \cup { {f} : f \in Fields } \cup { Fields }

\* The object holding m at config/maxEntries and g at config/gmtOffset, and
\* lacking the properties in 'absent'.
RemoteObject(absent, m, g) ==
    [ f \in Fields |->
        IF f \in absent THEN Missing(f)
        ELSE IF f = "_max_entries" THEN Present(m)
        ELSE IF f = "_gmt_offset" THEN Present(g)
        ELSE Present(RemoteValue[f]) ]

\* The objects Firebase.get("config") may return: any capacity with any set
\* of lacking properties, and any offset in a complete object.
RemoteObjects ==
    { RemoteObject(absent, m, RemoteValue["_gmt_offset"]) :
        absent \in AbsentSets, m \in (-1)..MaxRemoteEntries }
    \cup
    { RemoteObject({}, m, g) :
        m \in (-1)..MaxRemoteEntries, g \in RemoteGmtOffsets }

\* The samples log() is called with: (timestamp, adc0, adc1, active).
Samples ==
    { [ time |-> 1500000000, adc0 |-> 512, adc1 |-> 300, active |-> a ] :
      a \in BOOLEAN }

----------------------------------------------------------------------------
(* Device *)

\* The LED after the LED calls of a trace, starting from 'l'.
RECURSIVE LedAfter(_, _)
LedAfter(l, t) ==
    IF t = <<>> THEN l
    ELSE LET e == Head(t)
             l2 == IF e \in {"blinkLed(25)", "blinkLed(19)"} THEN "blink"
                   ELSE IF e = "setLed(true)" THEN "steady"
                   ELSE l
         IN  LedAfter(l2, Tail(t))

----------------------------------------------------------------------------
(* update() *)

\* A maybeUpdate that reports whether the member changed
\* ('return value != maybeNewValue').
maybeUpdateReportsChange(obj, path, value) ==
    LET maybeNewValue == obj[path].value
    IN  IF obj[path].failed
        THEN [ ok |-> FALSE, value |-> value ]
        ELSE [ ok |-> (value # maybeNewValue), value |-> maybeNewValue ]

\* maybeUpdate<T>: the value read from the object replaces 'value' unless
\* the read failed.
maybeUpdate(obj, path, value) ==
    LET maybeNewValue == obj[path].value
    IN  IF obj[path].failed
        THEN [ ok |-> FALSE, value |-> value ]
        ELSE [ ok |-> TRUE,  value |-> maybeNewValue ]

\* A loop that stops reading at the first property that failed
\* ('success = success && maybeUpdate...').
RECURSIVE UpdateFieldsShortCircuit(_, _, _, _)
UpdateFieldsShortCircuit(k, obj, cfg, success) ==
    IF k > Len(FieldOrder) \/ ~success
    THEN [ config |-> cfg, success |-> success ]
    ELSE LET f == FieldOrder[k]
             r == maybeUpdate(obj, f, cfg[f])
         IN  UpdateFieldsShortCircuit(k + 1, obj, [cfg EXCEPT ![f] = r.value],
                                      success /\ r.ok)

\* A loop that keeps only the outcome of the last read
\* ('success = maybeUpdate...').
RECURSIVE UpdateFieldsLastOnly(_, _, _, _)
UpdateFieldsLastOnly(k, obj, cfg, success) ==
    IF k > Len(FieldOrder) THEN [ config |-> cfg, success |-> success ]
    ELSE LET f == FieldOrder[k]
             r == maybeUpdate(obj, f, cfg[f])
         IN  UpdateFieldsLastOnly(k + 1, obj, [cfg EXCEPT ![f] = r.value],
                                  r.ok)

\* The twelve 'success &= maybeUpdate...(...)' statements, from the k-th on.
RECURSIVE UpdateFields(_, _, _, _)
UpdateFields(k, obj, cfg, success) ==
    IF k > Len(FieldOrder) THEN [ config |-> cfg, success |-> success ]
    ELSE LET f == FieldOrder[k]
             r == maybeUpdate(obj, f, cfg[f])
         IN  UpdateFields(k + 1, obj, [cfg EXCEPT ![f] = r.value],
                          success /\ r.ok)

\* An update() without the check of the whole-object read: the getters'
\* values are stored whatever the outcome.
updateUnchecked(getOk, obj, cfg) ==
    [ config |-> [ f \in Fields |-> obj[f].value ],
      success |-> getOk,
      calls |-> << "blinkLed(25)",
                   IF getOk THEN "Firebase.get:ok" ELSE "Firebase.get:failed",
                   "setLed(true)" >> ]

\* The body of update(): 'getOk' is the outcome of Firebase.get("config"),
\* 'obj' the object it left.  Yields the members, the value returned and the
\* collaborator calls made; the LED is set steady only on the path that runs
\* to the end.
update(getOk, obj, cfg) ==
    IF ~getOk
    THEN [ config |-> cfg, success |-> FALSE,
           calls |-> << "blinkLed(25)", "Firebase.get:failed" >> ]
    ELSE LET r == UpdateFields(1, obj, cfg, TRUE)
         IN  [ config |-> r.config, success |-> r.success,
               calls |-> << "blinkLed(25)", "Firebase.get:ok",
                            "setLed(true)" >> ]

\* An update() that restarts the log at slot 0.
UpdateResetsCursor ==
    /\ ~fault
    /\ \E getOk \in BOOLEAN :
       \E obj \in (IF getOk THEN RemoteObjects ELSE {NoObject}) :
         LET r == update(getOk, obj, config)
         IN  /\ config' = r.config
             /\ configObj' = obj
             /\ result' = IF r.success THEN "true" ELSE "false"
             /\ trace' = r.calls
             /\ led' = LedAfter(led, r.calls)
             /\ repeated' = /\ lastCall = "update"
                            /\ configObj = obj
                            /\ trace[2] = r.calls[2]
    /\ lastCall' = "update"
    /\ returned' = 0
    /\ writes' = <<>>
    /\ logged' = <<>>
    /\ _current_entry' = 0
    /\ UNCHANGED fault
    /\ UNCHANGED tvars

\* A call of 'bool update(Device& device)'.
Update ==
    /\ ~fault
    /\ \E getOk \in BOOLEAN :
       \E obj \in (IF getOk THEN RemoteObjects ELSE {NoObject}) :
         LET r == update(getOk, obj, config)
         IN  /\ config' = r.config
             /\ configObj' = obj
             /\ result' = IF r.success THEN "true" ELSE "false"
             /\ trace' = r.calls
             /\ led' = LedAfter(led, r.calls)
             /\ repeated' = /\ lastCall = "update"
                            /\ configObj = obj
                            /\ trace[2] = r.calls[2]
    /\ lastCall' = "update"
    /\ returned' = 0
    /\ writes' = <<>>
    /\ logged' = <<>>
    /\ UNCHANGED <<_current_entry, fault>>
    /\ UNCHANGED tvars

----------------------------------------------------------------------------
(* log() *)

\* The loop bound of 'for (int i = 0; i < 3; i++)'.
Attempts == 3

\* '(uint32_t) % (int)': the int operand is converted to uint32_t, so a
\* negative m stands for 2^32 + m.  Every a the model reaches is below 2^31,
\* hence below 2^32 + m, and the remainder is a itself.  m = 0 is undefined
\* and is not computed here.
Uint32Mod(a, m) == IF m > 0 THEN a % m ELSE a

\* A cursor that wraps one slot late ('% (_max_entries + 1)').
NextEntryWrapsLate(entry, max_entries) == Uint32Mod(entry + 1, max_entries + 1)

\* (_current_entry + 1) % _max_entries
NextEntry(entry, max_entries) == Uint32Mod(entry + 1, max_entries)

\* The remainders an undefined '% 0' may leave in _current_entry when it
\* does not trap.
UndefinedEntries == 0..MaxCursor

\* A pass that leaves the LED blinking while the outcome is examined.
AttemptCallsLedLeftBlinking == << "blinkLed(19)", "Firebase.set" >>

\* What one pass of the loop body does before 'failed()' is examined.
AttemptCalls == << "blinkLed(19)", "Firebase.set", "setLed(true)" >>

\* A loop that advances the cursor after every pass, failed or not.
RECURSIVE LogLoopAdvancesOnFailure(_, _, _, _)
LogLoopAdvancesOnFailure(i, outcomes, entry, max_entries) ==
    IF ~(i < Attempts)
    THEN [ calls |-> <<>>, sets |-> 0, entry |-> entry, undefined |-> FALSE ]
    ELSE LET next == IF max_entries = 0 THEN entry
                     ELSE NextEntry(entry, max_entries)
         IN  IF outcomes[i + 1]
             THEN [ calls |-> AttemptCalls \o << "failed():false" >>,
                    sets |-> 1, entry |-> next,
                    undefined |-> (max_entries = 0) ]
             ELSE LET rest == LogLoopAdvancesOnFailure(i + 1, outcomes, next,
                                                       max_entries)
                  IN  [ calls |-> AttemptCalls
                                  \o << "failed():true", "delay(100)" >>
                                  \o rest.calls,
                        sets |-> 1 + rest.sets,
                        entry |-> rest.entry,
                        undefined |-> (max_entries = 0) ]

\* A loop without the 'break': it goes on writing after a success.
RECURSIVE LogLoopNoBreak(_, _, _, _)
LogLoopNoBreak(i, outcomes, entry, max_entries) ==
    IF ~(i < Attempts)
    THEN [ calls |-> <<>>, sets |-> 0, entry |-> entry, undefined |-> FALSE ]
    ELSE IF outcomes[i + 1]
         THEN LET next == IF max_entries = 0 THEN entry
                          ELSE NextEntry(entry, max_entries)
                  rest == LogLoopNoBreak(i + 1, outcomes, next, max_entries)
              IN  [ calls |-> AttemptCalls \o << "failed():false" >>
                              \o rest.calls,
                    sets |-> 1 + rest.sets,
                    entry |-> rest.entry,
                    undefined |-> (max_entries = 0) ]
         ELSE LET rest == LogLoopNoBreak(i + 1, outcomes, entry, max_entries)
              IN  [ calls |-> AttemptCalls
                              \o << "failed():true", "delay(100)" >>
                              \o rest.calls,
                    sets |-> 1 + rest.sets,
                    entry |-> rest.entry,
                    undefined |-> rest.undefined ]

\* A loop that delays only between passes, not after the last one.
RECURSIVE LogLoopNoFinalDelay(_, _, _, _)
LogLoopNoFinalDelay(i, outcomes, entry, max_entries) ==
    IF ~(i < Attempts)
    THEN [ calls |-> <<>>, sets |-> 0, entry |-> entry, undefined |-> FALSE ]
    ELSE IF outcomes[i + 1]
         THEN [ calls |-> AttemptCalls \o << "failed():false" >>,
                sets |-> 1,
                entry |-> IF max_entries = 0 THEN entry
                          ELSE NextEntry(entry, max_entries),
                undefined |-> (max_entries = 0) ]
         ELSE LET rest == LogLoopNoFinalDelay(i + 1, outcomes, entry,
                                              max_entries)
              IN  [ calls |-> AttemptCalls \o << "failed():true" >>
                              \o (IF i + 1 < Attempts THEN << "delay(100)" >>
                                  ELSE <<>>)
                              \o rest.calls,
                    sets |-> 1 + rest.sets,
                    entry |-> rest.entry,
                    undefined |-> rest.undefined ]

\* The loop of log() from pass i on, with the outcomes the store gives to the
\* passes.  Yields the calls made, the number of Firebase.set calls, the
\* cursor, and whether a remainder by zero was evaluated.
RECURSIVE LogLoop(_, _, _, _)
LogLoop(i, outcomes, entry, max_entries) ==
    IF ~(i < Attempts)
    THEN [ calls |-> <<>>, sets |-> 0, entry |-> entry, undefined |-> FALSE ]
    ELSE IF outcomes[i + 1]
         THEN \* success: advance the cursor and leave the loop
              [ calls |-> AttemptCalls \o << "failed():false" >>,
                sets |-> 1,
                entry |-> IF max_entries = 0 THEN entry
                          ELSE NextEntry(entry, max_entries),
                undefined |-> (max_entries = 0) ]
         ELSE \* failure: delay, then the next pass
              LET rest == LogLoop(i + 1, outcomes, entry, max_entries)
              IN  [ calls |-> AttemptCalls \o << "failed():true", "delay(100)" >>
                              \o rest.calls,
                    sets |-> 1 + rest.sets,
                    entry |-> rest.entry,
                    undefined |-> rest.undefined ]

\* The slots written by consecutive calls that succeeded at the first try
\* and left a defined cursor, for a run that began at slot 0.
Logged(run, slot, outcomes, undefined) ==
    IF ~outcomes[1] \/ undefined THEN <<>>
    ELSE IF run = <<>> \/ Len(run) >= MaxRun
         THEN (IF slot = 0 THEN << slot >> ELSE <<>>)
    ELSE Append(run, slot)

\* Writes whose slot is worked out again at every pass.
LogWritesSlotPerPass(slotRef, root, outcomes, sets) ==
    [ k \in 1..sets |->
        [ slot |-> slotRef + (k - 1), root |-> root, ok |-> outcomes[k] ] ]

\* The Firebase.set(slotRef, root) calls of one log(): 'slotRef' and 'root'
\* are built once, before the loop.
LogWrites(slotRef, root, outcomes, sets) ==
    [ k \in 1..sets |->
        [ slot |-> slotRef, root |-> root, ok |-> outcomes[k] ] ]

\* void log(Device& device, time_t timestamp, double adc0, double adc1, bool active)
Log ==
    /\ ~fault
    /\ _current_entry < MaxCursor
    /\ \E root \in Samples, outcomes \in [1..Attempts -> BOOLEAN] :
         LET slotRef == _current_entry
             r == LogLoop(0, outcomes, _current_entry, config["_max_entries"])
         IN  /\ trace' = r.calls
             /\ writes' = LogWrites(slotRef, root, outcomes, r.sets)
             /\ led' = LedAfter(led, r.calls)
             /\ logged' = Logged(logged, slotRef, outcomes, r.undefined)
             /\ IF r.undefined
                THEN \/ /\ fault' = TRUE
                        /\ result' = "none"
                        /\ _current_entry' = _current_entry
                     \/ /\ fault' = FALSE
                        /\ result' = "void"
                        /\ _current_entry' \in UndefinedEntries
                ELSE /\ fault' = FALSE
                     /\ result' = "void"
                     /\ _current_entry' = r.entry
    /\ lastCall' = "log"
    /\ returned' = 0
    /\ configObj' = NoObject
    /\ repeated' = FALSE
    /\ UNCHANGED config
    /\ UNCHANGED tvars

----------------------------------------------------------------------------
(* getGmtOffset() *)

\* static_cast<int8_t>(v)
Int8(v) == ((v + 128) % 256) - 128

\* An accessor whose assert() is compiled out.
getGmtOffsetNoAssert(gmt_offset) ==
    [ asserted |-> FALSE, value |-> Int8(gmt_offset) ]

\* The body of getGmtOffset(): the assert() fails for an offset outside
\* [-11, 13]; otherwise the offset is returned as an int8_t.
getGmtOffset(gmt_offset) ==
    IF -11 <= gmt_offset /\ gmt_offset <= 13
    THEN [ asserted |-> FALSE, value |-> Int8(gmt_offset) ]
    ELSE [ asserted |-> TRUE,  value |-> 0 ]

\* A call of 'int8_t getGmtOffset() const'.
GetGmtOffset ==
    /\ ~fault
    /\ LET r == getGmtOffset(config["_gmt_offset"])
       IN  /\ fault' = r.asserted
           /\ result' = IF r.asserted THEN "none" ELSE "int8"
           /\ returned' = r.value
    /\ lastCall' = "getGmtOffset"
    /\ trace' = <<>>
    /\ writes' = <<>>
    /\ logged' = <<>>
    /\ configObj' = NoObject
    /\ repeated' = FALSE
    /\ UNCHANGED <<config, _current_entry, led>>
    /\ UNCHANGED tvars

----------------------------------------------------------------------------
(* init() *)

\* The collaborator calls of init(): one Firebase.begin, then failed().
init(beginFailed) ==
    << "Firebase.begin",
       IF beginFailed THEN "failed():true" ELSE "failed():false" >>

\* A call of 'bool init(const String&, const String&)'.  The function ends
\* without a return statement: what the caller receives is undefined, so it
\* is either bool, or the call traps.
InitConnection ==
    /\ ~fault
    /\ \E beginFailed \in BOOLEAN : trace' = init(beginFailed)
    /\ \/ /\ fault' = FALSE
          /\ result' \in { "true", "false" }
       \/ /\ fault' = TRUE
          /\ result' = "none"
    /\ lastCall' = "init"
    /\ returned' = 0
    /\ writes' = <<>>
    /\ logged' = <<>>
    /\ configObj' = NoObject
    /\ repeated' = FALSE
    /\ UNCHANGED <<config, _current_entry, led>>
    /\ UNCHANGED tvars

----------------------------------------------------------------------------
(* Thermistor: doubles *)

\* A double is held exactly when it is a rational, as num/den in lowest terms
\* with den > 0.  Every other double the code can produce (an infinity, a
\* NaN, the logarithm of a rational other than 1) is NotRational: it is
\* carried along, never computed with.
RECURSIVE GCD(_, _)
GCD(a, b) == IF b = 0 THEN a ELSE GCD(b, a % b)

Abs(n) == IF n < 0 THEN -n ELSE n

Rational(n, d) ==
    LET g == GCD(Abs(n), Abs(d))
        sgn == IF d < 0 THEN -1 ELSE 1
    IN  [ rational |-> TRUE, num |-> sgn * (n \div g), den |-> sgn * (d \div g) ]

NotRational == [ rational |-> FALSE, num |-> 0, den |-> 1 ]

\* x + y, x - y, x / y and log(x) on doubles.
Plus(x, y) ==
    IF x.rational /\ y.rational
    THEN Rational(x.num * y.den + y.num * x.den, x.den * y.den)
    ELSE NotRational

Minus(x, y) ==
    IF x.rational /\ y.rational
    THEN Rational(x.num * y.den - y.num * x.den, x.den * y.den)
    ELSE NotRational

Over(x, y) ==
    IF x.rational /\ y.rational /\ y.num # 0
    THEN Rational(x.num * y.den, x.den * y.num)
    ELSE NotRational

Ln(x) ==
    IF x.rational /\ x.num = x.den THEN Rational(0, 1) ELSE NotRational

----------------------------------------------------------------------------
(* Thermistor *)

\* const double _k = 273.15
K == Rational(27315, 100)

\* The full scale of the ADC in adcToResistance.
AdcFullScale == 1023

\* The calibrations Thermistor::init is called with: (rs, r0, t0, b), with
\* t0 in Celsius.
Calibrations ==
    { [ rs |-> Rational(rs, 1), r0 |-> r0, t0 |-> Rational(t0, 1),
        b |-> Rational(b, 1) ] :
      rs \in { 8170, 10000 },
      r0 \in { Rational(955555, 100), Rational(5000, 1) },
      t0 \in { 0, 25 },
      b \in { 3380, 3950 } }

\* The values the members may hold before init() has stored any.
Indeterminate == { Rational(-1, 1), Rational(0, 1) }

\* The ADC samples toReading is called with, all strictly between 0 and full
\* scale: the two extreme ones and every 31st in between (341, where the
\* divider is at one third, among them).
AdcSamples ==
    { a \in 1..(AdcFullScale - 1) :
        a = 1 \/ a = AdcFullScale - 1 \/ a % 31 = 0 }

NoCalibration ==
    [ set |-> FALSE, rs |-> Rational(0, 1), r0 |-> Rational(0, 1),
      t0 |-> Rational(0, 1), b |-> Rational(0, 1) ]

NoSample == [ taken |-> FALSE, adc |-> 0 ]

NoReading ==
    [ _adc |-> Rational(0, 1), _resistance |-> Rational(0, 1),
      _celsius |-> Rational(0, 1) ]

\* The state of a program without a Thermistor object.
NoThermistor ==
    [ constructed |-> FALSE, _rs |-> Rational(0, 1), _r0 |-> Rational(0, 1),
      _t0 |-> Rational(0, 1), _b |-> Rational(0, 1) ]

\* A divider solved the wrong way round ('(adc / 1023.0) - 1.0').
adcToResistanceInverted(adc, _rs) ==
    Over(_rs, Minus(Over(adc, Rational(AdcFullScale, 1)), Rational(1, 1)))

\* double adcToResistance(double adc)
adcToResistance(adc, _rs) ==
    Over(_rs, Minus(Over(Rational(AdcFullScale, 1), adc), Rational(1, 1)))

\* double resistanceToCelsius(double r)
resistanceToCelsius(r, th) ==
    LET c1 == Over(r, th._r0)                        \* (R/R0)
        c2 == Ln(c1)                                 \* ln(R/R0)
        c3 == Over(c2, th._b)                        \* 1/B * ln(R/R0)
        c4 == Plus(c3, Over(Rational(1, 1), th._t0)) \* + (1/T0)
        c5 == Over(Rational(1, 1), c4)               \* Invert
        c6 == Minus(c5, K)                           \* Kelvin -> Celsius
    IN  c6

\* An init that stores t0 as given, in Celsius.
Thermistor_initKeepsCelsius(th, rs, r0, t0, b) ==
    [ th EXCEPT !._rs = rs, !._r0 = r0, !._t0 = t0, !._b = b ]

\* void init(double rs, double r0, double t0, double b)
Thermistor_init(th, rs, r0, t0, b) ==
    [ th EXCEPT !._rs = rs, !._r0 = r0, !._t0 = Plus(t0, K), !._b = b ]

\* ThermistorReading toReading(double adc)
toReading(th, adc) ==
    LET resistance == adcToResistance(adc, th._rs)
        celsius == resistanceToCelsius(resistance, th)
    IN  [ _adc |-> adc, _resistance |-> resistance, _celsius |-> celsius ]

\* A call of Thermistor::init.
ThermistorInit ==
    /\ thermistor.constructed
    /\ \E c \in Calibrations :
         /\ thermistor' = Thermistor_init(thermistor, c.rs, c.r0, c.t0, c.b)
         /\ calibration' = [ set |-> TRUE, rs |-> c.rs, r0 |-> c.r0,
                             t0 |-> c.t0, b |-> c.b ]
    /\ sample' = NoSample
    /\ reading' = NoReading
    /\ UNCHANGED cvars

\* A call of Thermistor::toReading.
ToReading ==
    /\ thermistor.constructed
    /\ \E adc \in AdcSamples :
         /\ sample' = [ taken |-> TRUE, adc |-> adc ]
         /\ reading' = toReading(thermistor, Rational(adc, 1))
    /\ UNCHANGED <<thermistor, calibration>>
    /\ UNCHANGED cvars

----------------------------------------------------------------------------

\* The CloudStorage object as constructed.
CloudStorageInit ==
    /\ config = Defaults
    /\ _current_entry = 0
    /\ led = "steady"
    /\ fault = FALSE
    /\ lastCall = "none"
    /\ result = "none"
    /\ returned = 0
    /\ configObj = NoObject
    /\ trace = <<>>
    /\ writes = <<>>
    /\ logged = <<>>
    /\ repeated = FALSE

Init ==
    /\ CloudStorageInit
    /\ thermistor = NoThermistor
    /\ calibration = NoCalibration
    /\ sample = NoSample
    /\ reading = NoReading

Next == Update \/ Log \/ GetGmtOffset \/ InitConnection

Spec == Init /\ [][Next]_vars

\* The Thermistor object as constructed: its members have no initialisers.
InitThermistor ==
    /\ CloudStorageInit
    /\ thermistor \in
         [ constructed : {TRUE}, _rs : Indeterminate, _r0 : Indeterminate,
           _t0 : Indeterminate, _b : Indeterminate ]
    /\ calibration = NoCalibration
    /\ sample = NoSample
    /\ reading = NoReading

NextThermistor == ThermistorInit \/ ToReading

SpecThermistor == InitThermistor /\ [][NextThermistor]_vars

----------------------------------------------------------------------------
(* Observations of the handler that ran last *)

MaxEntries == config["_max_entries"]

\* update() ran and its Firebase.get("config") failed / succeeded.
UpdateGetFailed == lastCall = "update" /\ trace[2] = "Firebase.get:failed"
UpdateGetOk     == lastCall = "update" /\ trace[2] = "Firebase.get:ok"

\* The number of calls 'c' in the trace.
Calls(c) == Cardinality({ i \in 1..Len(trace) : trace[i] = c })

\* log() ran; the cursor it entered with is the slot of its first write.
LogRan        == lastCall = "log"
EntryCursor   == writes[1].slot
LogSucceeded  == LogRan /\ \E k \in 1..Len(writes) : writes[k].ok
LogExhausted  == LogRan /\ \A k \in 1..Len(writes) : ~writes[k].ok

----------------------------------------------------------------------------
(* Claims *)

\* C1: in every reachable state the log cursor satisfies
\* 0 <= _current_entry < _max_entries.
C1_CursorBelowMaxEntries ==
    0 <= _current_entry /\ _current_entry < MaxEntries

\* C2: no call of update() or log() is fatal: neither ever traps.
C2_NothingIsFatal == ~(fault /\ lastCall \in {"update", "log"})

\* C3: a log() call whose write succeeds returns with the cursor at
\* (cursor on entry + 1) mod maxEntries, a defined value; a call whose
\* attempts all fail leaves the cursor where it was.
C3_CursorAdvancesModMaxEntries ==
    /\ LogSucceeded =>
         /\ ~fault
         /\ MaxEntries >= 1
         /\ _current_entry =
              (IF MaxEntries >= 1 THEN (EntryCursor + 1) % MaxEntries ELSE -1)
    /\ LogExhausted => _current_entry = EntryCursor

\* C4: a log() call whose attempts all fail issues exactly 3 writes, leaves
\* the cursor unchanged and returns normally with no value.
C4_ExhaustedLogKeepsCursor ==
    [][ LogExhausted' =>
          /\ Len(writes') = 3
          /\ _current_entry' = _current_entry
          /\ result' = "void"
          /\ fault' = FALSE ]_vars

C4_Witness ==
    /\ LogExhausted
    /\ Len(writes) = 3
    /\ _current_entry = 2
    /\ MaxEntries = 3

\* C5: every log() call issues between 1 and 3 writes and ends; when write k
\* is the first to succeed exactly k writes are issued, none after it, and
\* when none succeeds 3 are issued.
C5_AtMostThreeAttempts ==
    LogRan =>
      /\ Len(writes) \in 1..3
      /\ \A k \in 1..Len(writes) : writes[k].ok => k = Len(writes)
      /\ LogExhausted => Len(writes) = 3
      /\ fault \/ result = "void"

C5_Witness ==
    /\ LogRan
    /\ Len(writes) = 2
    /\ ~writes[1].ok
    /\ writes[2].ok
    /\ ~fault

\* C6: with a fixed maxEntries = N >= 1, successive log() calls that each
\* succeed, starting from cursor 0, write slots 0, 1, ..., N-1 in that order,
\* then slot 0 again; after the k-th call the cursor is k mod N.
C6_LogWrapsAtMaxEntries ==
    (MaxEntries >= 1 /\ Len(logged) >= 1 /\ logged[1] = 0) =>
      /\ \A k \in 1..Len(logged) : logged[k] = (k - 1) % MaxEntries
      /\ _current_entry = Len(logged) % MaxEntries

C6_Witness ==
    /\ MaxEntries = 3
    /\ logged = << 0, 1, 2, 0 >>
    /\ _current_entry = 1

\* C7: an update() whose whole-config read fails returns false and leaves
\* every one of the twelve members as it was.
C7_FailedGetKeepsConfig ==
    [][ UpdateGetFailed' => (config' = config /\ result' = "false") ]_vars

C7_Witness ==
    /\ UpdateGetFailed
    /\ result = "false"
    /\ \A f \in Fields : config[f] = RemoteValue[f]

\* C8: an update() whose whole-config read succeeds returns true exactly
\* when all twelve member reads succeeded.
C8_ResultIsAndOfFields ==
    UpdateGetOk =>
      (result = "true" <=> \A f \in Fields : ~configObj[f].failed)

C8_Witness ==
    /\ UpdateGetOk
    /\ result = "false"
    /\ \A f \in Fields : configObj[f].failed <=> f = FieldOrder[1]

\* C9: after an update() whose whole-config read succeeds, each member holds
\* the remote value if its own read succeeded and its prior value if not,
\* whatever the outcomes of the other reads.
C9_FieldsUpdateIndependently ==
    [][ UpdateGetOk' =>
          \A f \in Fields :
            config'[f] = IF configObj'[f].failed THEN config[f]
                         ELSE configObj'[f].value ]_vars

C9_Witness ==
    /\ UpdateGetOk
    /\ \A f \in Fields : configObj[f].failed <=> f = FieldOrder[1]
    /\ config[FieldOrder[1]] = Defaults[FieldOrder[1]]
    /\ \A f \in Fields \ {FieldOrder[1], "_max_entries"} :
         config[f] = RemoteValue[f]

\* C10: every update() call signals the LED active at its start and has set
\* it steady by the time it returns, on every return path.
C10_LedSteadyAfterUpdate ==
    lastCall = "update" => (trace[1] = "blinkLed(25)" /\ led = "steady")

\* C11: the stored UTC offset is within [-11, 13] in every reachable state.
C11_GmtOffsetInRange ==
    -11 <= config["_gmt_offset"] /\ config["_gmt_offset"] <= 13

\* C12: getGmtOffset() returns the stored offset unchanged when it is within
\* [-11, 13], and fails its assertion, returning nothing, when it is not.
C12_AccessorAssertsRange ==
    lastCall = "getGmtOffset" =>
      IF C11_GmtOffsetInRange
      THEN ~fault /\ result = "int8" /\ returned = config["_gmt_offset"]
      ELSE fault /\ result = "none"

C12_Witness ==
    /\ lastCall = "getGmtOffset"
    /\ config["_gmt_offset"] = 300
    /\ fault

\* C13: init() makes exactly one connection attempt and returns a defined
\* boolean: false when the client reports failure after begin, true otherwise.
C13_InitReportsOutcome ==
    lastCall = "init" =>
      /\ Calls("Firebase.begin") = 1
      /\ ~fault
      /\ result = IF trace[2] = "failed():true" THEN "false" ELSE "true"

\* C14: an update() that follows an update() and meets the same store content
\* and read outcomes leaves the twelve members, the cursor and the returned
\* boolean as the first call left them.
C14_UpdateIsIdempotent ==
    [][ repeated' =>
          /\ config' = config
          /\ _current_entry' = _current_entry
          /\ result' = result ]_vars

C14_Witness ==
    /\ repeated
    /\ UpdateGetOk
    /\ result = "true"
    /\ config["_max_entries"] = 2

\* C15: for an ADC sample strictly between 0 and 1023 and a series resistance
\* above 0, toReading yields a resistance above 0, equal to
\* rs / ((1023 / adc) - 1) = rs * adc / (1023 - adc), and the sample itself.
C15_ResistanceIsPositive ==
    (sample.taken /\ thermistor._rs.num > 0) =>
      /\ reading._resistance.rational
      /\ reading._resistance.num > 0
      /\ reading._resistance =
           Rational(thermistor._rs.num * sample.adc,
                    thermistor._rs.den * (1023 - sample.adc))
      /\ reading._adc = Rational(sample.adc, 1)

C15_Witness ==
    /\ sample.taken
    /\ sample.adc = 1022
    /\ thermistor._rs = Rational(8170, 1)
    /\ reading._resistance = Rational(8170 * 1022, 1)

\* C16: after init(rs, r0, t0, b), a sample whose resistance equals r0 reads
\* as the temperature t0, in Celsius, whatever b.
C16_RoundTripAtCalibrationPoint ==
    (calibration.set /\ sample.taken /\ reading._resistance = calibration.r0)
      => reading._celsius = calibration.t0

C16_Witness ==
    /\ calibration.set
    /\ sample.taken
    /\ sample.adc = 341
    /\ reading._resistance = calibration.r0
    /\ calibration.t0 = Rational(25, 1)
    /\ reading._celsius = Rational(25, 1)

\* C17: in log() every write is preceded by a blinkLed and followed by a
\* setLed(true) before failed() is examined, so the LED is steady at every
\* delay and when the call ends.
C17_LedSteadyAroundWrites ==
    LogRan =>
      /\ Calls("Firebase.set") = Len(writes)
      /\ \A i \in 1..Len(trace) :
           trace[i] = "Firebase.set" =>
             /\ i > 1 /\ trace[i - 1] = "blinkLed(19)"
             /\ i + 2 <= Len(trace)
             /\ trace[i + 1] = "setLed(true)"
             /\ trace[i + 2] \in { "failed():true", "failed():false" }
      /\ \A i \in 1..Len(trace) :
           trace[i] = "delay(100)" =>
             LedAfter("blink", SubSeq(trace, 1, i)) = "steady"
      /\ led = "steady"

C17_Witness ==
    /\ LogExhausted
    /\ Calls("delay(100)") = 3
    /\ led = "steady"

\* C18: all the writes of one log() call target the slot of the cursor the
\* call entered with, and carry the same record.
C18_RetriesKeepSlotAndRecord ==
    [][ LogRan' =>
          \A k \in 1..Len(writes') :
            /\ writes'[k].slot = _current_entry
            /\ writes'[k].root = writes'[1].root ]_vars

C18_Witness ==
    /\ LogRan
    /\ Len(writes) = 3
    /\ writes[3].ok
    /\ writes[3].slot = 2
    /\ writes[3].root.active

\* C19: update() never changes the log cursor and log() never changes any of
\* the twelve configuration members.
C19_UpdateAndLogFrames ==
    [][ /\ lastCall' = "update" => _current_entry' = _current_entry
        /\ lastCall' = "log" => config' = config ]_vars

C19_Witness ==
    /\ UpdateGetOk
    /\ result = "true"
    /\ _current_entry = 2
    /\ MaxEntries = 1

\* C20: in log() exactly one delay(100) follows every failed write, the third
\* included, and none follows a successful one: a call makes as many delays
\* as it has failed writes, 3 when it exhausts its attempts.
C20_OneDelayPerFailedWrite ==
    LogRan =>
      /\ Calls("delay(100)") =
           Cardinality({ k \in 1..Len(writes) : ~writes[k].ok })
      /\ \A i \in 1..Len(trace) :
           /\ trace[i] = "failed():true" =>
                (i < Len(trace) /\ trace[i + 1] = "delay(100)")
           /\ trace[i] = "failed():false" => i = Len(trace)
      /\ LogExhausted => Calls("delay(100)") = 3

C20_Witness ==
    /\ LogSucceeded
    /\ Len(writes) = 3
    /\ Calls("delay(100)") = 2

====
